---- MODULE Spec2Model ----
(***************************************************************************)
(* BasePromptConfig (hugegraph_llm/config/models/base_prompt_config.py):   *)
(* a store of nine prompts in two languages, the active language, and the  *)
(* YAML backing file the store is loaded from and saved to.                *)
(*                                                                         *)
(* A Python value is a record [t, s]: t = "str" with the text s, or        *)
(* t = "none" (None).  The instance dictionary of the store is the         *)
(* function attrs from attribute names to values; self.language lives in   *)
(* it beside the 18 <key>_en / <key>_zh fields, as it does in the object.  *)
(* The backing file is NoFile or a YAML document: a sequence of entries    *)
(* [key, node], a node being a scalar [style, text].                       *)
(***************************************************************************)
EXTENDS Naturals, Sequences, FiniteSets

VARIABLES attrs, file, last

vars == <<attrs, file, last>>

\* ---------------------------------------------------------------- bounds

\* Direct attribute assignment is explored on the first MaxFields fields.
MaxFields == 2

\* ---------------------------------------------------------------- values

Str(s) == [t |-> "str", s |-> s]

None == [t |-> "none", s |-> ""]

\* Texts a field is assigned directly: empty, an English and a Chinese text.
Texts == {"", "A", "B"}

\* ------------------------------------------------------------ the store

PROMPT_KEYS ==
    << "graph_schema", "extract_graph_prompt", "default_question",
       "custom_rerank_info", "answer_prompt", "keywords_extract_prompt",
       "text2gql_graph_schema", "gremlin_generate_prompt", "doc_input_text" >>

KeyEn(key) == key \o "_en"

KeyZh(key) == key \o "_zh"

Keys == {PROMPT_KEYS[i] : i \in 1..Len(PROMPT_KEYS)}

Fields == {KeyEn(k) : k \in Keys} \cup {KeyZh(k) : k \in Keys}

\* setattr(self, name, value) on the instance dictionary a.
setattr(a, name, value) ==
    [n \in (DOMAIN a) \cup {name} |-> IF n = name THEN value ELSE a[n]]

\* getattr(self, name, default) on the instance dictionary a.
getattr(a, name, default) == IF name \in DOMAIN a THEN a[name] ELSE default

RECURSIVE InitKeysEnOnly(_, _)
\* Mutant of InitKeys: the loop initializes the _en field only.
InitKeysEnOnly(a, i) ==
    IF i > Len(PROMPT_KEYS) THEN a
    ELSE InitKeysEnOnly(setattr(a, KeyEn(PROMPT_KEYS[i]), Str("")), i + 1)

RECURSIVE InitKeys(_, _)
\* The loop of __init__ from the i-th prompt key on.
InitKeys(a, i) ==
    IF i > Len(PROMPT_KEYS) THEN a
    ELSE InitKeys(setattr(setattr(a, KeyEn(PROMPT_KEYS[i]), Str("")),
                          KeyZh(PROMPT_KEYS[i]), Str("")), i + 1)

\* __init__ up to the call of ensure_yaml_file_exists.
InitAttrs == InitKeys([n \in {"language"} |-> Str("en")], 1)

\* set_language: the language the call leaves.
LanguageAfter(lang) == IF lang \in {"en", "zh"} THEN lang ELSE "en"

\* Mutant of Prompt: the property ignores the language.
PromptEnglishOnly(a, key) == getattr(a, KeyEn(key), Str(""))

\* The property of a prompt key, read on the instance dictionary a.
Prompt(a, key) ==
    IF a["language"] = Str("zh")
    THEN getattr(a, KeyZh(key), getattr(a, KeyEn(key), Str("")))
    ELSE getattr(a, KeyEn(key), Str(""))

\* ----------------------------------------------------------------- YAML

\* os.path.exists(yaml_file_path) is false.
NoFile == [exists |-> FALSE, doc |-> << >>]

\* The backing file holding the document doc.
FileOf(doc) == [exists |-> TRUE, doc |-> doc]

\* The tag the implicit resolver gives a plain scalar.
Resolve(text) == IF text \in {"", "~", "null"} THEN "none" ELSE "str"

\* Mutant of Represent: every string is written as a plain scalar.
RepresentPlain(v) ==
    IF v.t = "none" THEN [style |-> "plain", text |-> "null"]
    ELSE [style |-> "plain", text |-> v.s]

\* The scalar yaml.dump emits for a value: a string is written plain only if
\* a plain scalar of that text resolves to a string again.
Represent(v) ==
    IF v.t = "none" THEN [style |-> "plain", text |-> "null"]
    ELSE [style |-> IF Resolve(v.s) = "str" THEN "plain" ELSE "quoted",
          text |-> v.s]

\* The value yaml.safe_load constructs from a scalar.
ConstructScalar(node) ==
    IF node.style = "plain" /\ Resolve(node.text) = "none" THEN None
    ELSE Str(node.text)

Entry(key, node) == [key |-> key, node |-> node]

RECURSIVE PromptsToSaveEnOnly(_, _)
\* Mutant of PromptsToSave: the loop saves the _en field only.
PromptsToSaveEnOnly(a, i) ==
    IF i > Len(PROMPT_KEYS) THEN << >>
    ELSE << Entry(KeyEn(PROMPT_KEYS[i]),
                  Represent(getattr(a, KeyEn(PROMPT_KEYS[i]), Str("")))) >>
         \o PromptsToSaveEnOnly(a, i + 1)

RECURSIVE PromptsToSave(_, _)
\* The loop of save_to_yaml from the i-th prompt key on, already dumped:
\* sort_keys=False keeps the insertion order.
PromptsToSave(a, i) ==
    IF i > Len(PROMPT_KEYS) THEN << >>
    ELSE << Entry(KeyEn(PROMPT_KEYS[i]),
                  Represent(getattr(a, KeyEn(PROMPT_KEYS[i]), Str("")))),
            Entry(KeyZh(PROMPT_KEYS[i]),
                  Represent(getattr(a, KeyZh(PROMPT_KEYS[i]), Str("")))) >>
         \o PromptsToSave(a, i + 1)

\* save_to_yaml: the document written, the file opened with mode "w".
SavedFile(a) == FileOf(PromptsToSave(a, 1))

RECURSIVE LoadItems(_, _, _)
\* for key, value in data.items(): setattr(self, key, value)
LoadItems(a, doc, i) ==
    IF i > Len(doc) THEN a
    ELSE LoadItems(setattr(a, doc[i].key, ConstructScalar(doc[i].node)),
                   doc, i + 1)

\* str.lower on the answers read.
lower(s) == IF s = "Y" THEN "y" ELSE s

\* What the operator may type at input().
Answers == {"y", "Y", "n"}

\* Mutant of GenerateOutcomes: the answer is read and not looked at.
GenerateOutcomesOverwrite(a, f) ==
    IF f.exists
    THEN { [file |-> SavedFile(a), existed |-> TRUE, asked |-> TRUE,
            answer |-> answer] : answer \in Answers }
    ELSE { [file |-> SavedFile(a), existed |-> FALSE, asked |-> FALSE,
            answer |-> ""] }

\* Mutant of GenerateOutcomes: a missing file is not written.
GenerateOutcomesNoCreate(a, f) ==
    IF f.exists
    THEN { [file |-> IF lower(answer) # "y" THEN f ELSE SavedFile(a),
            existed |-> TRUE, asked |-> TRUE, answer |-> answer] :
           answer \in Answers }
    ELSE { [file |-> f, existed |-> FALSE, asked |-> FALSE, answer |-> ""] }

\* generate_yaml_file on instance dictionary a with backing file f: the
\* outcomes, one for each answer input() may return where it is called.
GenerateOutcomes(a, f) ==
    IF f.exists
    THEN { [file |-> IF lower(answer) # "y" THEN f ELSE SavedFile(a),
            existed |-> TRUE, asked |-> TRUE, answer |-> answer] :
           answer \in Answers }
    ELSE { [file |-> SavedFile(a), existed |-> FALSE, asked |-> FALSE,
            answer |-> ""] }

\* Mutant of EnsureOutcomes: the file is loaded over fresh defaults.
EnsureOutcomesFresh(a, f) ==
    IF f.exists
    THEN { [attrs |-> LoadItems(setattr(InitAttrs, "language", a["language"]),
                                f.doc, 1),
            file |-> f, existed |-> TRUE, asked |-> FALSE, answer |-> ""] }
    ELSE { [attrs |-> a, file |-> g.file, existed |-> FALSE,
            asked |-> g.asked, answer |-> g.answer] :
           g \in GenerateOutcomes(a, f) }

\* Mutant of EnsureOutcomes: generate_yaml_file runs after the load too.
EnsureOutcomesRegenerate(a, f) ==
    LET b == IF f.exists /\ Len(f.doc) > 0 THEN LoadItems(a, f.doc, 1) ELSE a
    IN  { [attrs |-> b, file |-> g.file, existed |-> f.exists,
           asked |-> g.asked, answer |-> g.answer] :
          g \in GenerateOutcomes(b, f) }

\* ensure_yaml_file_exists on instance dictionary a with backing file f.
EnsureOutcomes(a, f) ==
    IF f.exists
    THEN { [attrs |-> IF Len(f.doc) > 0 THEN LoadItems(a, f.doc, 1) ELSE a,
            file |-> f, existed |-> TRUE, asked |-> FALSE, answer |-> ""] }
    ELSE { [attrs |-> a, file |-> g.file, existed |-> FALSE,
            asked |-> g.asked, answer |-> g.answer] :
           g \in GenerateOutcomes(a, f) }

\* --------------------------------------------------- the operator's files

Plain(text) == [style |-> "plain", text |-> text]

\* Documents found at yaml_file_path that the store did not write: an empty
\* file, one with fewer fields, one with an unknown key, one that names
\* the attribute language, one with a null field.  Every key is a name
\* setattr accepts on the instance (a field, language, a new name); a key
\* naming a read-only property or a method is a malformed file, not explored.
ExternalDocs ==
    { << >>,
      << Entry("graph_schema_en", Plain("A")) >>,
      << Entry("note", Plain("x")),
         Entry("graph_schema_zh", Plain("B")) >>,
      << Entry("language", Plain("fr")) >>,
      << Entry("doc_input_text_en", Plain("A")),
         Entry("doc_input_text_zh", Plain("~")) >> }

ExternalFiles == {NoFile} \cup {FileOf(d) : d \in ExternalDocs}

\* -------------------------------------------------------------- actions

\* The operation that ran last: its name, what os.path.exists told it (FALSE
\* where it does not look), whether it called input() and the answer read.
Last(op, existed, asked, answer) ==
    [op |-> op, existed |-> existed, asked |-> asked, answer |-> answer]

\* An operation that neither looks for the file nor reads an answer.
Quiet(op) == Last(op, FALSE, FALSE, "")

\* BasePromptConfig(): a fresh store on the current backing file.  stubbed is
\* the tests' patch of ensure_yaml_file_exists.
Construct(stubbed) ==
    IF stubbed
    THEN /\ attrs' = InitAttrs
         /\ last' = Quiet("construct_stubbed")
         /\ UNCHANGED file
    ELSE \E e \in EnsureOutcomes(InitAttrs, file) :
         /\ attrs' = e.attrs
         /\ file' = e.file
         /\ last' = Last("construct", e.existed, e.asked, e.answer)

set_language(lang) ==
    /\ attrs' = setattr(attrs, "language", Str(LanguageAfter(lang)))
    /\ last' = Quiet("set_language")
    /\ UNCHANGED file

ensure_yaml_file_exists ==
    \E e \in EnsureOutcomes(attrs, file) :
        /\ attrs' = e.attrs
        /\ file' = e.file
        /\ last' = Last("load", e.existed, e.asked, e.answer)

save_to_yaml ==
    /\ file' = SavedFile(attrs)
    /\ last' = Quiet("save")
    /\ UNCHANGED attrs

generate_yaml_file ==
    \E g \in GenerateOutcomes(attrs, file) :
        /\ file' = g.file
        /\ last' = Last("generate", g.existed, g.asked, g.answer)
        /\ UNCHANGED attrs

update_yaml_file ==
    /\ file' = SavedFile(attrs)
    /\ last' = Quiet("update")
    /\ UNCHANGED attrs

\* config.<key>_en = text / config.<key>_zh = text, as the tests and the
\* subclasses assign the fields.
SetField(name, text) ==
    /\ attrs' = setattr(attrs, name, Str(text))
    /\ last' = Quiet("set_field")
    /\ UNCHANGED file

\* The operator edits, replaces or removes the human-editable backing file
\* between two operations of the store.
EditFile(f) ==
    /\ file' = f
    /\ last' = Quiet("edit_file")
    /\ UNCHANGED attrs

\* Arguments of set_language: the two supported codes and an unsupported one.
Languages == {"en", "zh", "fr"}

\* The fields in the order save_to_yaml writes them.
FieldSeq == [i \in 1..(2 * Len(PROMPT_KEYS)) |->
                IF i % 2 = 1 THEN KeyEn(PROMPT_KEYS[(i + 1) \div 2])
                ELSE KeyZh(PROMPT_KEYS[i \div 2])]

AssignedFields == {FieldSeq[i] : i \in 1..MaxFields}

Init ==
    \E f \in ExternalFiles :
        \E e \in EnsureOutcomes(InitAttrs, f) :
            /\ attrs = e.attrs
            /\ file = e.file
            /\ last = Last("construct", e.existed, e.asked, e.answer)

Next ==
    \/ \E stubbed \in BOOLEAN : Construct(stubbed)
    \/ \E lang \in Languages : set_language(lang)
    \/ ensure_yaml_file_exists
    \/ save_to_yaml
    \/ generate_yaml_file
    \/ update_yaml_file
    \/ \E name \in AssignedFields, text \in Texts : SetField(name, text)
    \/ \E f \in ExternalFiles : EditFile(f)

Spec == Init /\ [][Next]_vars

\* ------------------------------------------------------------ properties

Language == attrs["language"]

\* A string that is set: not None and not empty.
IsSet(v) == v.t = "str" /\ v.s # ""

\* The backing file f read back: the 18 entries <key>_en, <key>_zh in the
\* order of PROMPT_KEYS, each loading as the value a holds.
FileHolds(f, a) ==
    /\ f.exists
    /\ Len(f.doc) = Len(FieldSeq)
    /\ \A i \in 1..Len(FieldSeq) :
        /\ f.doc[i].key = FieldSeq[i]
        /\ ConstructScalar(f.doc[i].node) = a[FieldSeq[i]]

DocKeys(doc) == {doc[i].key : i \in 1..Len(doc)}

\* The value a document gives a key it names.
DocValue(doc, name) ==
    ConstructScalar(doc[CHOOSE i \in 1..Len(doc) : doc[i].key = name].node)

\* C1: in every reachable state the active language is 'en' or 'zh'.
LanguageSupported == Language \in {Str("en"), Str("zh")}

\* C2: with the language 'zh', a prompt whose _zh field is the empty string
\* and whose _en field is set reads as the _en value.
FallbackWhenChineseEmpty ==
    \A k \in Keys :
        (Language = Str("zh") /\ attrs[KeyZh(k)] = Str("")
            /\ IsSet(attrs[KeyEn(k)]))
        => Prompt(attrs, k) = attrs[KeyEn(k)]

\* C3: a prompt whose _zh field is set reads as the _zh value when the
\* language is 'zh'; every prompt reads as the _en value when the language is
\* 'en', whatever the _zh field holds.
AccessorFollowsLanguage ==
    \A k \in Keys :
        /\ (Language = Str("zh") /\ IsSet(attrs[KeyZh(k)]))
            => Prompt(attrs, k) = attrs[KeyZh(k)]
        /\ Language = Str("en") => Prompt(attrs, k) = attrs[KeyEn(k)]

\* set_language('zh') has switched a prompt with both values set to Chinese.
SwitchedToChinese ==
    /\ last.op = "set_language"
    /\ Language = Str("zh")
    /\ attrs["graph_schema_en"] = Str("A")
    /\ attrs["graph_schema_zh"] = Str("B")
    /\ Prompt(attrs, "graph_schema") = Str("B")

AllStrings(a) == \A name \in Fields : a[name].t = "str"

\* C4: a store whose 18 fields are strings is saved; the store constructed
\* next from the same file holds the same 18 values.
SaveLoadRoundTrip ==
    [][(last.op = "save" /\ last'.op = "construct" /\ AllStrings(attrs))
        => \A name \in Fields : attrs'[name] = attrs[name]]_vars

\* A fresh store has loaded what a store with set and empty fields saved.
RoundTripDone ==
    /\ last.op = "construct"
    /\ last.existed
    /\ FileHolds(file, attrs)
    /\ attrs["graph_schema_en"] = Str("A")
    /\ attrs["graph_schema_zh"] = Str("")

\* C5: a store constructed while the backing file is missing leaves the file
\* holding its 18 fields, which are still the initialized defaults.
MissingFileCreated ==
    (last.op = "construct" /\ ~last.existed)
    => (FileHolds(file, attrs) /\ attrs = InitAttrs)

CreatedOnConstruction ==
    /\ last.op = "construct"
    /\ ~last.existed
    /\ file.exists

\* C6: generate_yaml_file with an existing file asks, overwrites the file with
\* the in-memory values on 'y' or 'Y' and leaves it as it was on any other
\* answer; with a missing file it writes without asking.  It never changes
\* the store.
GenerateConfirmsOverwrite ==
    [][last'.op = "generate"
        => /\ attrs' = attrs
           /\ IF file.exists
              THEN /\ last'.asked
                   /\ IF lower(last'.answer) = "y"
                      THEN FileHolds(file', attrs)
                      ELSE file' = file
              ELSE ~last'.asked /\ FileHolds(file', attrs)]_vars

\* The operator declined and the file still differs from the store.
OverwriteDeclined ==
    /\ last.op = "generate"
    /\ last.asked
    /\ lower(last.answer) # "y"
    /\ ~FileHolds(file, attrs)

\* C7: ensure_yaml_file_exists on an existing file gives each field the file
\* names the file's value, leaves the other fields as they were, changes
\* nothing when the file is empty, and does not write the file.
LoadFrame ==
    [][(last'.op = "load" /\ file.exists)
        => /\ file' = file
           /\ \A name \in Fields :
                attrs'[name] = IF name \in DocKeys(file.doc)
                               THEN DocValue(file.doc, name)
                               ELSE attrs[name]
           /\ file.doc = << >> => attrs' = attrs]_vars

\* A file naming only graph_schema_en was loaded over a store whose
\* graph_schema_zh had been assigned.
PartialFileLoaded ==
    /\ last.op = "load"
    /\ DocKeys(file.doc) = {"graph_schema_en"}
    /\ attrs["graph_schema_en"] = Str("A")
    /\ attrs["graph_schema_zh"] = Str("B")

\* C8: after save_to_yaml or update_yaml_file the file holds exactly the 18
\* fields in PROMPT_KEYS order with the in-memory values, and neither asked.
SaveWritesAllFields ==
    last.op \in {"save", "update"}
    => (FileHolds(file, attrs) /\ ~last.asked)

\* update_yaml_file wrote a store that differs from the defaults and carries
\* an attribute loaded from a file with an unknown key.
UpdatedOverOldFile ==
    /\ last.op = "update"
    /\ attrs["graph_schema_zh"] = Str("B")
    /\ "note" \in DOMAIN attrs
    /\ FileHolds(file, attrs)

\* C9: the 18 fields are attributes of the store in every state, and all of
\* them are the empty string right after a construction whose file I/O is
\* stubbed out.
FieldsAlwaysExist ==
    /\ Fields \subseteq DOMAIN attrs
    /\ last.op = "construct_stubbed"
        => \A name \in Fields : attrs[name] = Str("")

\* A stubbed construction beside a file that names a field.
StubbedConstruction ==
    /\ last.op = "construct_stubbed"
    /\ file.exists
    /\ "graph_schema_en" \in DocKeys(file.doc)

\* C10: input() is called only by a direct generate_yaml_file that found the
\* file; constructing and loading never ask.
OnlyGenerateAsks ==
    /\ last.asked => (last.op = "generate" /\ last.existed)
    /\ last.op \in {"construct", "load"} => ~last.asked

\* A store was constructed from an existing file with content, unasked.
ConstructedFromExistingFile ==
    /\ last.op = "construct"
    /\ last.existed
    /\ file.doc # << >>
    /\ ~last.asked

====
